---- MODULE Spec2Model ----
(***************************************************************************)
(* A model of stock_analysis.py: the __main__ block and main() as a        *)
(* sequential pipeline, with get_stock_data, get_insider_trades,           *)
(* generate_analysis_prompt, format_insider_trades and format_analysis     *)
(* as operators computed the way the Python computes them.                 *)
(*                                                                         *)
(* Text is a sequence of atoms (strings that the program never splits).    *)
(* A float is a record [k, n, d]: k = "fin" is the rational n/d (d > 0),   *)
(* k = "inf" is an infinity of sign n, k = "nan" is not-a-number.          *)
(* An optional value (Python None or a value) is a sequence of length <= 1.*)
(***************************************************************************)
EXTENDS Integers, Sequences, FiniteSets, TLC

VARIABLES
    pc,             \* position of the process in __main__ / main()
    argv,           \* sys.argv[1:]
    ticker,         \* main: ticker
    fetched,        \* the three frames as stock.history returned them (history)
    data,           \* main: data (None or the dict of frames)
    info,           \* main: info (None or the dict stock.info)
    insider_response, \* get_insider_trades: what requests.get answered
    insider_trades, \* main: insider_trades
    prompt,         \* main: prompt (None until composed)
    analysis,       \* main: analysis
    formatted_analysis, \* main: formatted_analysis
    out,            \* what was printed to standard output, in order
    calls           \* the stages main() has started, with their ticker argument (history)

vars == <<pc, argv, ticker, fetched, data, info, insider_response,
          insider_trades, prompt, analysis, formatted_analysis, out, calls>>

None == <<>>
Some(x) == <<x>>

----------------------------------------------------------------------------
(* Floats                                                                  *)

F(n, d) == [k |-> "fin", n |-> n, d |-> d]
NaN == [k |-> "nan", n |-> 0, d |-> 1]
Inf(s) == [k |-> "inf", n |-> s, d |-> 1]
Num(i) == F(i, 1)

Sign(i) == IF i < 0 THEN -1 ELSE IF i > 0 THEN 1 ELSE 0
Abs(i) == IF i < 0 THEN -i ELSE i

IsNaN(x) == x.k = "nan"

FNeg(a) ==
    IF a.k = "nan" THEN NaN
    ELSE IF a.k = "inf" THEN Inf(-a.n)
    ELSE F(-a.n, a.d)

FAdd(a, b) ==
    IF a.k = "nan" \/ b.k = "nan" THEN NaN
    ELSE IF a.k = "inf" /\ b.k = "inf" THEN (IF a.n = b.n THEN a ELSE NaN)
    ELSE IF a.k = "inf" THEN a
    ELSE IF b.k = "inf" THEN b
    ELSE F(a.n * b.d + b.n * a.d, a.d * b.d)

FSub(a, b) == FAdd(a, FNeg(b))

FMul(a, b) ==
    IF a.k = "nan" \/ b.k = "nan" THEN NaN
    ELSE IF a.k = "inf" \/ b.k = "inf"
         THEN (IF Sign(a.n) * Sign(b.n) = 0 THEN NaN ELSE Inf(Sign(a.n) * Sign(b.n)))
    ELSE F(a.n * b.n, a.d * b.d)

\* IEEE division as numpy performs it on a float column: x/0 is an infinity,
\* 0/0 is not-a-number, nothing raises.
FDiv(a, b) ==
    IF a.k = "nan" \/ b.k = "nan" THEN NaN
    ELSE IF a.k = "inf" THEN (IF b.k = "inf" THEN NaN
                              ELSE Inf(a.n * (IF b.n < 0 THEN -1 ELSE 1)))
    ELSE IF b.k = "inf" THEN F(0, 1)
    ELSE IF b.n = 0 THEN (IF a.n = 0 THEN NaN ELSE Inf(Sign(a.n)))
    ELSE F(a.n * b.d * Sign(b.n), a.d * Abs(b.n))

----------------------------------------------------------------------------
(* Frames: a pandas DataFrame is a function from column names to columns   *)
(* of floats, all of the same length (one entry per bar, oldest first).    *)

RSI_WINDOW == 14
SMA_20_WINDOW == 20
SMA_50_WINDOW == 50

Frame(closes, volumes) ==
    [c \in {"Close", "Volume"} |->
        IF c = "Close" THEN [i \in 1..Len(closes) |-> Num(closes[i])]
        ELSE [i \in 1..Len(closes) |-> Num(volumes[i])]]

NBars(df) == Len(df["Close"])
IsEmpty(df) == NBars(df) = 0

\* df[name] = col
SetCol(df, name, col) ==
    [c \in (DOMAIN df) \cup {name} |-> IF c = name THEN col ELSE df[c]]

\* Series.diff(): the first entry has no predecessor.
Diff(s) == [i \in 1..Len(s) |-> IF i = 1 THEN NaN ELSE FSub(s[i], s[i - 1])]

\* delta.where(delta > 0, 0): a comparison with not-a-number is false.
WherePositive(s) ==
    [i \in 1..Len(s) |-> IF s[i].k = "fin" /\ s[i].n > 0 THEN s[i] ELSE Num(0)]

\* delta.where(delta < 0, 0)
WhereNegative(s) ==
    [i \in 1..Len(s) |-> IF s[i].k = "fin" /\ s[i].n < 0 THEN s[i] ELSE Num(0)]

RECURSIVE SumRange(_, _, _)
SumRange(s, lo, hi) ==
    IF lo > hi THEN Num(0) ELSE FAdd(SumRange(s, lo, hi - 1), s[hi])

\* Series.rolling(window=w).mean(): undefined until w entries exist.
RollingMean(s, w) ==
    [i \in 1..Len(s) |->
        IF i < w THEN NaN ELSE FDiv(SumRange(s, i - w + 1, i), Num(w))]

\* Series.cumsum()
CumSum(s) == [i \in 1..Len(s) |-> SumRange(s, 1, i)]

Neg(s) == [i \in 1..Len(s) |-> FNeg(s[i])]
Times(s, t) == [i \in 1..Len(s) |-> FMul(s[i], t[i])]
Over(s, t) == [i \in 1..Len(s) |-> FDiv(s[i], t[i])]

\* 100 - (100 / (1 + rs)).  With no losing bar in the window the code divides
\* by a zero of either sign; both infinities give RSI 100, and 0/0 gives
\* not-a-number.
RSIColumn(close) ==
    LET delta == Diff(close)
        gain == RollingMean(WherePositive(delta), RSI_WINDOW)
        loss == Neg(RollingMean(WhereNegative(delta), RSI_WINDOW))
        rs == Over(gain, loss)
    IN  [i \in 1..Len(close) |->
            FSub(Num(100), FDiv(Num(100), FAdd(Num(1), rs[i])))]

VWAPColumn(close, volume) == Over(CumSum(Times(close, volume)), CumSum(volume))

\* ComputeIndicators with the price delta written back over the Close column
ComputeIndicatorsOverClose(daily_data) ==
    IF IsEmpty(daily_data) THEN daily_data
    ELSE LET d0 == SetCol(daily_data, "Close", Diff(daily_data["Close"]))
             d1 == SetCol(d0, "RSI", RSIColumn(daily_data["Close"]))
             d2 == SetCol(d1, "SMA_20", RollingMean(daily_data["Close"], SMA_20_WINDOW))
             d3 == SetCol(d2, "SMA_50", RollingMean(daily_data["Close"], SMA_50_WINDOW))
         IN  SetCol(d3, "VWAP", VWAPColumn(daily_data["Close"], d3["Volume"]))

\* get_stock_data, "Calculate technical indicators": the four columns are
\* assigned into the frame that data['daily'] refers to.
ComputeIndicators(daily_data) ==
    IF IsEmpty(daily_data) THEN daily_data
    ELSE LET d1 == SetCol(daily_data, "RSI", RSIColumn(daily_data["Close"]))
             d2 == SetCol(d1, "SMA_20", RollingMean(d1["Close"], SMA_20_WINDOW))
             d3 == SetCol(d2, "SMA_50", RollingMean(d2["Close"], SMA_50_WINDOW))
         IN  SetCol(d3, "VWAP", VWAPColumn(d3["Close"], d3["Volume"]))

\* Series.iloc[-k]; the caller checks InRange first (IndexError otherwise).
ILoc(s, k) == s[Len(s) - k + 1]
InRange(s, k) == Len(s) >= k

\* (latest / previous - 1) * 100
PctChange(close) ==
    FMul(FSub(FDiv(ILoc(close, 1), ILoc(close, 2)), Num(1)), Num(100))

----------------------------------------------------------------------------
(* Text                                                                    *)

Whitespace == {" ", "\n"}

RECURSIVE LStrip(_)
LStrip(t) ==
    IF t # <<>> /\ Head(t) \in Whitespace THEN LStrip(Tail(t)) ELSE t

RECURSIVE RStrip(_)
RStrip(t) ==
    IF t # <<>> /\ t[Len(t)] \in Whitespace
    THEN RStrip(SubSeq(t, 1, Len(t) - 1)) ELSE t

\* str.strip()
Strip(t) == RStrip(LStrip(t))

UpperChar(c) ==
    CASE c = "a" -> "A"
      [] c = "b" -> "B"
      [] c = "c" -> "C"
      [] OTHER -> c

\* Upper that leaves the ticker as typed
UpperOmitted(t) == t

\* str.upper()
Upper(t) == [i \in 1..Len(t) |-> UpperChar(t[i])]

StartsWith(t, p) == Len(t) >= Len(p) /\ SubSeq(t, 1, Len(p)) = p

\* str.replace(old, new): every non-overlapping occurrence, left to right.
RECURSIVE Replace(_, _, _)
Replace(t, old, new) ==
    IF t = <<>> THEN <<>>
    ELSE IF StartsWith(t, old)
         THEN new \o Replace(SubSeq(t, Len(old) + 1, Len(t)), old, new)
         ELSE <<Head(t)>> \o Replace(Tail(t), old, new)

----------------------------------------------------------------------------
(* get_insider_trades                                                      *)
(* A response is [kind, rows]: kind "network_error" (requests.get raises), *)
(* "http_error" (raise_for_status raises), "no_table" (no table of class   *)
(* tinytable) or "table"; rows are the table's tr elements in document     *)
(* order, each the sequence of the texts of its td cells.                  *)

FIRST_ROW == 1
LAST_ROW == 6
MIN_COLS == 8
DATE_COL == 1
INSIDER_COL == 3
TITLE_COL == 4
TRADE_TYPE_COL == 5
PRICE_COL == 6
QTY_COL == 7
OWNED_COL == 8
DELTA_OWN_COL == 9
VALUE_COL == 10

TradeCols == {DATE_COL, INSIDER_COL, TITLE_COL, TRADE_TYPE_COL, PRICE_COL,
              QTY_COL, OWNED_COL, DELTA_OWN_COL, VALUE_COL}

\* SliceRows without the upper end of the slice: find_all("tr")[1:]
SliceRowsUncapped(rows) == SubSeq(rows, FIRST_ROW + 1, Len(rows))

\* find_all("tr")[1:6], as 1-based positions
SliceRows(rows) ==
    SubSeq(rows, FIRST_ROW + 1, IF Len(rows) < LAST_ROW THEN Len(rows) ELSE LAST_ROW)

\* cols[k] with a 0-based k raises IndexError when the row has no such cell.
HasCol(cols, k) == k + 1 <= Len(cols)
Col(cols, k) == Strip(cols[k + 1])

RowSkipped(cols) == ~(Len(cols) >= MIN_COLS)
RowRaises(cols) == ~RowSkipped(cols) /\ \E k \in TradeCols : ~HasCol(cols, k)

Trade(cols) ==
    [date |-> Col(cols, DATE_COL),
     insider |-> Col(cols, INSIDER_COL),
     title |-> Col(cols, TITLE_COL),
     trade_type |-> Col(cols, TRADE_TYPE_COL),
     price |-> Col(cols, PRICE_COL),
     qty |-> Col(cols, QTY_COL),
     owned |-> Col(cols, OWNED_COL),
     delta_own |-> Col(cols, DELTA_OWN_COL),
     value |-> Col(cols, VALUE_COL)]

\* The loop of lines 40-54 over rows that do not raise.
RECURSIVE CollectTrades(_)
CollectTrades(rows) ==
    IF rows = <<>> THEN <<>>
    ELSE IF RowSkipped(Head(rows)) THEN CollectTrades(Tail(rows))
    ELSE <<Trade(Head(rows))>> \o CollectTrades(Tail(rows))

\* Whether the try block raises (everything raised is caught at line 57).
InsiderRaises(resp) ==
    \/ resp.kind \in {"network_error", "http_error"}
    \/ /\ resp.kind = "table"
       /\ \E i \in 1..Len(SliceRows(resp.rows)) : RowRaises(SliceRows(resp.rows)[i])

\* GetInsiderTrades with an except clause that returns the trades collected so
\* far (the rows before the one that raised) instead of []
RECURSIVE CollectUntilRaise(_)
CollectUntilRaise(rows) ==
    IF rows = <<>> \/ RowRaises(Head(rows)) THEN <<>>
    ELSE IF RowSkipped(Head(rows)) THEN CollectUntilRaise(Tail(rows))
    ELSE <<Trade(Head(rows))>> \o CollectUntilRaise(Tail(rows))

GetInsiderTradesPartial(resp) ==
    IF resp.kind = "table" THEN CollectUntilRaise(SliceRows(resp.rows)) ELSE <<>>

\* The value get_insider_trades returns.
GetInsiderTrades(resp) ==
    IF InsiderRaises(resp) THEN <<>>
    ELSE IF resp.kind = "no_table" THEN <<>>
    ELSE CollectTrades(SliceRows(resp.rows))

\* format_insider_trades
RECURSIVE FormatTradeLines(_)
FormatTradeLines(trades) ==
    IF trades = <<>> THEN <<>>
    ELSE LET trade == Head(trades)
         IN  <<"Date: ">> \o trade.date \o <<"\n">>
             \o <<"Insider: ">> \o trade.insider \o <<" (">> \o trade.title \o <<")\n">>
             \o <<"Type: ">> \o trade.trade_type \o <<" | Price: ">> \o trade.price
             \o <<" | Quantity: ">> \o trade.qty \o <<"\n">>
             \o <<"Value: ">> \o trade.value \o <<" | Shares Owned: ">> \o trade.owned
             \o <<"\n">>
             \o <<"--------------------------------------------------\n">>
             \o FormatTradeLines(Tail(trades))

FormatInsiderTrades(trades) ==
    IF trades = <<>> THEN <<"No recent insider trades found">>
    ELSE <<"Recent insider trades:\n">> \o FormatTradeLines(trades)

----------------------------------------------------------------------------
(* generate_analysis_prompt                                                *)
(* A value of the info dict is [t, s, v]: a number v (t = "num"), a string *)
(* s (t = "str") or None (t = "none").  A rendered field is [t, s, v]: t   *)
(* names the format specification, s the text part, v the digits.          *)

VNum(v) == [t |-> "num", s |-> "", v |-> v]
VStr(s) == [t |-> "str", s |-> s, v |-> 0]
VNone == [t |-> "none", s |-> "None", v |-> 0]

InfoKeys == {"longName", "industry", "sector", "marketCap", "fiftyTwoWeekLow",
             "fiftyTwoWeekHigh", "volume", "averageVolume", "trailingPE",
             "trailingEps", "forwardPE", "pegRatio"}

\* Get without its default: info.get(key)
GetOrNone(d, key, default) == IF key \in DOMAIN d THEN d[key] ELSE VNone

\* dict.get(key, default): the default is used only when the key is absent.
Get(d, key, default) == IF key \in DOMAIN d THEN d[key] ELSE default

\* round(100 * |n/d|) to the nearest integer, ties to even
Cents(x) ==
    LET a == 100 * Abs(x.n)
        q == a \div x.d
        r == a % x.d
    IN  IF 2 * r < x.d THEN q
        ELSE IF 2 * r > x.d THEN q + 1
        ELSE IF q % 2 = 0 THEN q ELSE q + 1

\* format(x, spec) of a float, spec ".2f" or ",.2f": not-a-number prints "nan".
FormatFloat(spec, x) ==
    IF x.k = "nan" THEN [t |-> spec, s |-> "nan", v |-> 0]
    ELSE IF x.k = "inf" THEN [t |-> spec, s |-> IF x.n < 0 THEN "-inf" ELSE "inf", v |-> 0]
    ELSE [t |-> spec, s |-> IF x.n < 0 THEN "-" ELSE "", v |-> Cents(x)]

\* A number format specification applied to None or to a string raises.
FormatRaises(val) == val.t # "num"

\* f"{val:.2f}", f"{val:,.2f}" and f"{val:,}" of an info value
FormatNumber(spec, val) ==
    IF spec = "," THEN [t |-> ",", s |-> IF val.v < 0 THEN "-" ELSE "", v |-> Abs(val.v)]
    ELSE FormatFloat(spec, Num(val.v))

\* f"{val}": str(val), which never raises
FormatStr(val) == [t |-> "str", s |-> val.s, v |-> val.v]

NA == VStr("N/A")
ZERO == VNum(0)

\* The fields formatted with a number specification, with the default each
\* info.get gives (lines 147-168).
NumberFields ==
    [marketCap |-> ",.2f", fiftyTwoWeekLow |-> ".2f", fiftyTwoWeekHigh |-> ".2f",
     volume |-> ",", averageVolume |-> ",", trailingEps |-> ".2f"]

\* Whether generate_analysis_prompt raises (IndexError, KeyError, TypeError
\* or ValueError); nothing in it catches.
PromptRaises(d, i) ==
    \/ ~InRange(d.daily["Close"], 1)
    \/ \E c \in {"RSI", "SMA_20", "SMA_50", "VWAP"} : c \notin DOMAIN d.daily
    \/ ~InRange(d.daily["Close"], 2)
    \/ ~InRange(d.weekly["Close"], 2)
    \/ ~InRange(d.monthly["Close"], 2)
    \/ \E key \in DOMAIN NumberFields : FormatRaises(Get(i, key, ZERO))

GenerateAnalysisPrompt(t, d, i, trades) ==
    LET daily_data == d.daily
        current_price == ILoc(daily_data["Close"], 1)
        rsi == ILoc(daily_data["RSI"], 1)
        sma_20 == ILoc(daily_data["SMA_20"], 1)
        sma_50 == ILoc(daily_data["SMA_50"], 1)
        vwap == ILoc(daily_data["VWAP"], 1)
        daily_change == PctChange(daily_data["Close"])
        weekly_change == PctChange(d.weekly["Close"])
        monthly_change == PctChange(d.monthly["Close"])
    IN  [ticker |-> t,
         insider_trades_str |-> FormatInsiderTrades(trades),
         longName |-> FormatStr(Get(i, "longName", NA)),
         industry |-> FormatStr(Get(i, "industry", NA)),
         sector |-> FormatStr(Get(i, "sector", NA)),
         marketCap |-> FormatNumber(",.2f", Get(i, "marketCap", ZERO)),
         current_price |-> FormatFloat(".2f", current_price),
         fiftyTwoWeekLow |-> FormatNumber(".2f", Get(i, "fiftyTwoWeekLow", ZERO)),
         fiftyTwoWeekHigh |-> FormatNumber(".2f", Get(i, "fiftyTwoWeekHigh", ZERO)),
         volume |-> FormatNumber(",", Get(i, "volume", ZERO)),
         averageVolume |-> FormatNumber(",", Get(i, "averageVolume", ZERO)),
         rsi |-> FormatFloat(".2f", rsi),
         sma_20 |-> FormatFloat(".2f", sma_20),
         sma_50 |-> FormatFloat(".2f", sma_50),
         vwap |-> FormatFloat(".2f", vwap),
         daily_change |-> FormatFloat(".2f", daily_change),
         weekly_change |-> FormatFloat(".2f", weekly_change),
         monthly_change |-> FormatFloat(".2f", monthly_change),
         trailingPE |-> FormatStr(Get(i, "trailingPE", NA)),
         trailingEps |-> FormatNumber(".2f", Get(i, "trailingEps", ZERO)),
         forwardPE |-> FormatStr(Get(i, "forwardPE", NA)),
         pegRatio |-> FormatStr(Get(i, "pegRatio", NA))]

----------------------------------------------------------------------------
(* format_analysis                                                         *)
(* colorama's control sequences are atoms of their own.                    *)

FORE_BLACK == "ESC[30m"
FORE_RED == "ESC[31m"
FORE_GREEN == "ESC[32m"
FORE_YELLOW == "ESC[33m"
FORE_CYAN == "ESC[36m"
BACK_RED == "ESC[41m"
BACK_GREEN == "ESC[42m"
BACK_YELLOW == "ESC[43m"
STYLE_BRIGHT == "ESC[1m"
RESET_ALL == "ESC[0m"

ControlSequences ==
    {FORE_BLACK, FORE_RED, FORE_GREEN, FORE_YELLOW, FORE_CYAN, BACK_RED,
     BACK_GREEN, BACK_YELLOW, STYLE_BRIGHT, RESET_ALL}

Rule(old, new) == [old |-> old, new |-> new]

\* The fourteen replace calls of lines 204-222, in order.
FormatRules == <<
    Rule(<<"Short-Term Outlook">>,
         <<FORE_CYAN, STYLE_BRIGHT, "Short-Term Outlook", RESET_ALL>>),
    Rule(<<"Long-Term Outlook">>,
         <<FORE_CYAN, STYLE_BRIGHT, "\n", "Long-Term Outlook", RESET_ALL>>),
    Rule(<<"Key Considerations">>,
         <<FORE_CYAN, STYLE_BRIGHT, "\n", "Key Considerations", RESET_ALL>>),
    Rule(<<"Recommendation: ", "Buy">>,
         <<"Recommendation: ", BACK_GREEN, FORE_BLACK, " ", "Buy", " ", RESET_ALL>>),
    Rule(<<"Recommendation: ", "Sell">>,
         <<"Recommendation: ", BACK_RED, FORE_BLACK, " ", "Sell", " ", RESET_ALL>>),
    Rule(<<"Recommendation: ", "Hold">>,
         <<"Recommendation: ", BACK_YELLOW, FORE_BLACK, " ", "Hold", " ", RESET_ALL>>),
    Rule(<<"Support Levels:">>, <<FORE_GREEN, "Support Levels:", RESET_ALL>>),
    Rule(<<"Resistance Levels:">>, <<FORE_RED, "Resistance Levels:", RESET_ALL>>),
    Rule(<<"Entry Points:">>, <<FORE_GREEN, "Entry Points:", RESET_ALL>>),
    Rule(<<"Exit Points:">>, <<FORE_RED, "Exit Points:", RESET_ALL>>),
    Rule(<<"Risk: ", "High">>,
         <<"Risk: ", BACK_RED, FORE_BLACK, " ", "High", " ", RESET_ALL>>),
    Rule(<<"Risk: ", "Medium">>,
         <<"Risk: ", BACK_YELLOW, FORE_BLACK, " ", "Medium", " ", RESET_ALL>>),
    Rule(<<"Risk: ", "Low">>,
         <<"Risk: ", BACK_GREEN, FORE_BLACK, " ", "Low", " ", RESET_ALL>> ),
    Rule(<<"Target Price Range:">>,
         <<FORE_GREEN, STYLE_BRIGHT, "Target Price Range:", RESET_ALL>>) >>

RECURSIVE ApplyRules(_, _)
ApplyRules(t, rules) ==
    IF rules = <<>> THEN t
    ELSE ApplyRules(Replace(t, Head(rules).old, Head(rules).new), Tail(rules))

\* FormatAnalysis that also matches the recommendation phrase in lower case
FormatAnalysisAnyCase(a) ==
    ApplyRules(a, FormatRules \o
        <<Rule(<<"recommendation: ", "Buy">>,
               <<"recommendation: ", BACK_GREEN, FORE_BLACK, " ", "Buy", " ",
                 RESET_ALL>>)>>)

FormatAnalysis(a) == ApplyRules(a, FormatRules)

----------------------------------------------------------------------------
(* The process: the __main__ block and main().                             *)
(* An environment E gives what the outside world may answer: the command   *)
(* lines, the provider's answers to get_stock_data, the pages served to    *)
(* get_insider_trades and the answers of ollama.generate.                  *)

Msg(kind, text) == [kind |-> kind, text |-> text]

\* A stage main() starts, with the ticker it passes (<<>> when it passes none)
Call(stage, arg) == [stage |-> stage, arg |-> arg]

\* DataMissing with the check of lines 237-238 left out
DataMissingNever(d, i) == FALSE

\* main, lines 237-238
DataMissing(d, i) == d = None \/ i = None

\* get_stock_data: the pair (data, info) returned for an answer of the
\* provider; any exception gives (None, None).
GetStockData(ans) ==
    IF ans.kind = "error" THEN <<None, None>>
    ELSE <<Some([daily |-> ComputeIndicators(ans.daily),
                 weekly |-> ans.weekly,
                 monthly |-> ans.monthly]),
           Some(ans.info)>>

\* line 256: response['response'].strip()
Analysis(resp) == Strip(resp.text)

Init(E) ==
    /\ pc = "start"
    /\ argv \in E.argvs
    /\ ticker = <<>>
    /\ fetched = None
    /\ data = None
    /\ info = None
    /\ insider_response = None
    /\ insider_trades = <<>>
    /\ prompt = None
    /\ analysis = None
    /\ formatted_analysis = None
    /\ out = <<>>
    /\ calls = <<>>

\* lines 267-272
Entry ==
    /\ pc = "start"
    /\ IF Len(argv) + 1 < 2
       THEN /\ out' = Append(out, Msg("usage", <<>>))
            /\ pc' = "done"
       ELSE /\ out' = out
            /\ pc' = "main"
    /\ UNCHANGED <<argv, ticker, fetched, data, info, insider_response,
                   insider_trades, prompt, analysis, formatted_analysis, calls>>

\* main, lines 227-234
ParseArgs ==
    /\ pc = "main"
    /\ ticker' = Upper(argv[1])
    /\ out' = out \o <<Msg("header", ticker'), Msg("fetching_data", ticker')>>
    /\ pc' = "get_stock_data"
    /\ UNCHANGED <<argv, fetched, data, info, insider_response, insider_trades,
                   prompt, analysis, formatted_analysis, calls>>

\* main, lines 235-240, with get_stock_data (lines 84-119)
FetchStockData(E) ==
    /\ pc = "get_stock_data"
    /\ \E ans \in E.answers :
        LET r == GetStockData(ans)
        IN  /\ fetched' = IF ans.kind = "error" THEN None
                          ELSE Some([daily |-> ans.daily, weekly |-> ans.weekly,
                                     monthly |-> ans.monthly])
            /\ data' = r[1]
            /\ info' = r[2]
            /\ IF DataMissing(r[1], r[2])
               THEN /\ out' = out \o (IF ans.kind = "error"
                                      THEN <<Msg("error_data", ticker \o <<ans.message>>)>>
                                      ELSE <<>>)
                    /\ pc' = "done"
               ELSE /\ out' = Append(out, Msg("fetching_insider", ticker))
                    /\ pc' = "get_insider_trades"
    /\ calls' = Append(calls, Call("get_stock_data", ticker))
    /\ UNCHANGED <<argv, ticker, insider_response, insider_trades, prompt,
                   analysis, formatted_analysis>>

\* main, lines 241-243, with get_insider_trades (lines 15-59)
FetchInsiderTrades(E) ==
    /\ pc = "get_insider_trades"
    /\ \E resp \in E.pages :
        /\ insider_response' = Some(resp)
        /\ insider_trades' = GetInsiderTrades(resp)
        /\ out' = out
                  \o (IF InsiderRaises(resp)
                      THEN <<Msg("error_insider", <<resp.kind>>)>> ELSE <<>>)
                  \o <<Msg("analyzing", ticker)>>
    /\ pc' = "generate_analysis_prompt"
    /\ calls' = Append(calls, Call("get_insider_trades", ticker))
    /\ UNCHANGED <<argv, ticker, fetched, data, info, prompt, analysis,
                   formatted_analysis>>

\* main, line 244: the call is outside the try block of lines 246-265, so an
\* exception raised in generate_analysis_prompt leaves main() uncaught.
ComposePrompt ==
    /\ pc = "generate_analysis_prompt"
    /\ IF PromptRaises(data[1], info[1])
       THEN /\ prompt' = prompt
            /\ pc' = "crashed"
       ELSE /\ prompt' = Some(GenerateAnalysisPrompt(ticker, data[1], info[1],
                                                     insider_trades))
            /\ pc' = "ollama_generate"
    /\ calls' = Append(calls, Call("generate_analysis_prompt", ticker))
    /\ UNCHANGED <<argv, ticker, fetched, data, info, insider_response,
                   insider_trades, analysis, formatted_analysis, out>>

\* OllamaGenerate that calls the endpoint again after a failure
OllamaGenerateRetry(E) ==
    /\ pc = "ollama_generate"
    /\ \E resp \in E.completions :
        IF resp.kind = "error"
        THEN /\ out' = Append(out, Msg("error_analysis", resp.text))
             /\ analysis' = analysis
             /\ pc' = "ollama_generate"
        ELSE /\ out' = out
             /\ analysis' = Some(Analysis(resp))
             /\ pc' = "format_analysis"
    /\ calls' = Append(calls, Call("ollama_generate", <<>>))
    /\ UNCHANGED <<argv, ticker, fetched, data, info, insider_response,
                   insider_trades, prompt, formatted_analysis>>

\* main, lines 246-256 and 264-265
OllamaGenerate(E) ==
    /\ pc = "ollama_generate"
    /\ \E resp \in E.completions :
        IF resp.kind = "error"
        THEN /\ out' = Append(out, Msg("error_analysis", resp.text))
             /\ analysis' = analysis
             /\ pc' = "done"
        ELSE /\ out' = out
             /\ analysis' = Some(Analysis(resp))
             /\ pc' = "format_analysis"
    /\ calls' = Append(calls, Call("ollama_generate", <<>>))
    /\ UNCHANGED <<argv, ticker, fetched, data, info, insider_response,
                   insider_trades, prompt, formatted_analysis>>

\* main, line 257
FormatStep ==
    /\ pc = "format_analysis"
    /\ formatted_analysis' = Some(FormatAnalysis(analysis[1]))
    /\ pc' = "print_results"
    /\ calls' = Append(calls, Call("format_analysis", <<>>))
    /\ UNCHANGED <<argv, ticker, fetched, data, info, insider_response,
                   insider_trades, prompt, analysis, out>>

\* main, lines 259-262
PrintResults ==
    /\ pc = "print_results"
    /\ out' = Append(out, Msg("results", formatted_analysis[1]))
    /\ pc' = "done"
    /\ calls' = Append(calls, Call("print_results", <<>>))
    /\ UNCHANGED <<argv, ticker, fetched, data, info, insider_response,
                   insider_trades, prompt, analysis, formatted_analysis>>

Run(E) ==
    \/ Entry
    \/ ParseArgs
    \/ FetchStockData(E)
    \/ FetchInsiderTrades(E)
    \/ ComposePrompt
    \/ OllamaGenerate(E)
    \/ FormatStep
    \/ PrintResults

----------------------------------------------------------------------------
(* Environments                                                            *)

MaxBars == 3      \* longest of the exhaustively enumerated price series
MaxRows == 7      \* most tr elements in a served table (header included)
MaxMissing == 2   \* most keys absent from an info dict
MaxResp == 3      \* most atoms in a completion

Tickers == {<<"a", "b", "c">>, <<"A", "b", "c">>, <<"A", "B", "C">>}

Closes == {100, 105}
Volumes == {0, 1000}

ShortFrames ==
    UNION {{Frame(c, v) : c \in [1..n -> Closes], v \in [1..n -> Volumes]} :
           n \in 0..MaxBars}

Zigzag(n) == [i \in 1..n |-> 100 + 5 * (i % 2)]
Ramp(n) == [i \in 1..n |-> 100 + i]
Flat(n) == [i \in 1..n |-> 100]
Traded(n) == [i \in 1..n |-> 1000]
LongLens == {13, 14, 20, 50}

LongFrames ==
    UNION {{Frame(Zigzag(n), Traded(n)), Frame(Ramp(n), Traded(n)),
            Frame(Flat(n), Traded(n))} : n \in LongLens}

EmptyFrame == Frame(<<>>, <<>>)
OneBar == Frame(<<100>>, <<1000>>)
TwoBars == Frame(<<100, 105>>, <<1000, 1000>>)
TwoBarsDown == Frame(<<110, 100>>, <<1000, 1000>>)

FullInfo ==
    [k \in InfoKeys |->
        CASE k = "longName" -> VStr("ABC Corp")
          [] k = "industry" -> VStr("Software")
          [] k = "sector" -> VStr("Technology")
          [] k = "marketCap" -> VNum(1234567)
          [] k = "fiftyTwoWeekLow" -> VNum(80)
          [] k = "fiftyTwoWeekHigh" -> VNum(120)
          [] k = "volume" -> VNum(1000)
          [] k = "averageVolume" -> VNum(2000)
          [] k = "trailingPE" -> VNum(25)
          [] k = "trailingEps" -> VNum(4)
          [] k = "forwardPE" -> VNum(20)
          [] k = "pegRatio" -> VNum(2)]

\* The info dict without the keys in missing and with None under the keys in nulls
InfoWith(missing, nulls) ==
    [k \in InfoKeys \ missing |-> IF k \in nulls THEN VNone ELSE FullInfo[k]]

Infos ==
    {InfoWith(m, n) :
        m \in {x \in SUBSET InfoKeys : Cardinality(x) <= MaxMissing},
        n \in {x \in SUBSET InfoKeys : Cardinality(x) <= 1}}

Answer(kind, daily, weekly, monthly, i, message) ==
    [kind |-> kind, daily |-> daily, weekly |-> weekly, monthly |-> monthly,
     info |-> i, message |-> message]

FetchError == Answer("error", EmptyFrame, EmptyFrame, EmptyFrame, FullInfo, "timed out")

Answers(dailies, weeklies, monthlies, infos) ==
    {FetchError} \cup
    {Answer("ok", d, w, m, i, "") :
        d \in dailies, w \in weeklies, m \in monthlies, i \in infos}

RowNames == <<"r0", "r1", "r2", "r3", "r4", "r5", "r6", "r7", "r8", "r9">>
ColNames == <<"c0", "c1", "c2", "c3", "c4", "c5", "c6", "c7", "c8", "c9",
              "c10", "c11">>

\* The text of the td cell at 0-based column c of the 0-based tr r
Cell(r, c) == <<" ", RowNames[r + 1], ColNames[c + 1], "\n">>
Row(r, width) == [c \in 1..width |-> Cell(r, c - 1)]

Page(kind, rows) == [kind |-> kind, rows |-> rows]

\* A table: the header row (th cells, no td) and data rows of the given widths
Table(widths) ==
    Page("table", <<Row(0, 0)>> \o [r \in 1..Len(widths) |-> Row(r, widths[r])])

\* Cell counts of a data row: skipped (7), raising (8, 10), well-formed (11).
\* Rows after the fifth data row are never looked at and take two of them.
Widths == {7, 8, 10, 11}
LaterWidths == {7, 11}

RowWidths(n) ==
    {w \in [1..n -> Widths] : \A r \in 1..n : r > 5 => w[r] \in LaterWidths}

Tables ==
    {Page("table", <<>>)} \cup
    UNION {{Table(w) : w \in RowWidths(n)} : n \in 0..(MaxRows - 1)}

FailedPages ==
    {Page("network_error", <<>>), Page("http_error", <<>>), Page("no_table", <<>>)}

Completion(kind, text) == [kind |-> kind, text |-> text]

\* Every atom a recognized phrase is made of, and variants in letter case and
\* spacing that are not recognized
Atoms ==
    {"Short-Term Outlook", "Long-Term Outlook", "Key Considerations",
     "Recommendation: ", "Buy", "Sell", "Hold", "Support Levels:",
     "Resistance Levels:", "Entry Points:", "Exit Points:", "Risk: ", "High",
     "Medium", "Low", "Target Price Range:",
     " ", "\n", "text", "recommendation: ", "Recommendation:"}

\* The atoms of the longer completions
CoreAtoms ==
    {"Short-Term Outlook", "Long-Term Outlook", "Key Considerations",
     "Recommendation: ", "Buy", "Sell", "Support Levels:", "Risk: ", "High",
     " ", "\n", "text", "recommendation: ", "Recommendation:"}

Texts ==
    UNION {[1..n -> Atoms] : n \in 0..2}
    \cup UNION {[1..n -> CoreAtoms] : n \in 0..MaxResp}

InferenceError == Completion("error", <<"connection refused">>)

MainEnv ==
    [argvs |-> {<<>>} \cup {<<t>> : t \in Tickers},
     answers |-> Answers({EmptyFrame, OneBar, TwoBars, Frame(Zigzag(15), Traded(15))},
                         {OneBar, TwoBars}, {TwoBars},
                         {FullInfo, InfoWith({"pegRatio"}, {}),
                          InfoWith({}, {"trailingEps"})}),
     pages |-> FailedPages \cup {Table(<<11>>), Table(<<8>>)},
     completions |-> {InferenceError, Completion("ok", <<"text">>),
                      Completion("ok", <<" ", "Recommendation: ", "Buy", "\n">>)}]

IndicatorEnv ==
    [argvs |-> {<<>>, << <<"A", "B", "C">> >>},
     answers |-> Answers(ShortFrames \cup LongFrames, {TwoBars},
                         {TwoBars, TwoBarsDown}, {FullInfo}),
     pages |-> {Page("no_table", <<>>)},
     completions |-> {InferenceError, Completion("ok", <<"text">>)}]

InsiderEnv ==
    [argvs |-> {<<>>, << <<"A", "B", "C">> >>},
     answers |-> Answers({TwoBars}, {TwoBars}, {TwoBars}, {FullInfo}),
     pages |-> FailedPages \cup Tables,
     completions |-> {InferenceError, Completion("ok", <<"text">>)}]

PromptEnv ==
    [argvs |-> {<<>>, << <<"A", "B", "C">> >>},
     answers |-> Answers({TwoBars}, {TwoBars}, {TwoBars}, Infos),
     pages |-> {Page("no_table", <<>>)},
     completions |-> {InferenceError, Completion("ok", <<"text">>)}]

FormatEnv ==
    [argvs |-> {<<>>, << <<"A", "B", "C">> >>},
     answers |-> Answers({TwoBars}, {TwoBars}, {TwoBars}, {FullInfo}),
     pages |-> {Page("no_table", <<>>)},
     completions |-> {InferenceError} \cup {Completion("ok", t) : t \in Texts}]

Next == Run(MainEnv)
Spec == Init(MainEnv) /\ [][Next]_vars

NextIndicators == Run(IndicatorEnv)
SpecIndicators == Init(IndicatorEnv) /\ [][NextIndicators]_vars

NextInsider == Run(InsiderEnv)
SpecInsider == Init(InsiderEnv) /\ [][NextInsider]_vars

NextPrompt == Run(PromptEnv)
SpecPrompt == Init(PromptEnv) /\ [][NextPrompt]_vars

NextFormat == Run(FormatEnv)
SpecFormat == Init(FormatEnv) /\ [][NextFormat]_vars

----------------------------------------------------------------------------
(* Properties                                                              *)

StageOrder == <<"get_stock_data", "get_insider_trades", "generate_analysis_prompt",
                "ollama_generate", "format_analysis", "print_results">>

Stages == [i \in 1..Len(calls) |-> calls[i].stage]

IsPrefix(p, t) == Len(p) <= Len(t) /\ SubSeq(t, 1, Len(p)) = p

Printed(kind) == \E i \in 1..Len(out) : out[i].kind = kind

\* C1: in every run of main() every failure is caught and reported and the
\* run ends cleanly: no exception escapes main().
C1_NoExceptionEscapesMain == pc # "crashed"

\* C2: when get_stock_data returns (None, None) the error is reported with the
\* ticker and the message and the run ends there: the insider fetch, prompt
\* composition and the inference call are never executed and no analysis is
\* printed.
C2_FetchFailureHalts ==
    (calls # <<>> /\ data = None) =>
        /\ pc = "done"
        /\ Stages = <<"get_stock_data">>
        /\ info = None
        /\ prompt = None /\ analysis = None /\ formatted_analysis = None
        /\ out[Len(out)] = Msg("error_data", ticker \o <<"timed out">>)
        /\ ~Printed("results") /\ ~Printed("analyzing")

C2_Witness ==
    /\ Stages = <<"get_stock_data">>
    /\ data = None
    /\ pc = "done"
    /\ Printed("error_data")

\* The data rows (every tr after the header) of the served table
DataRows(resp) == SubSeq(resp.rows, 2, Len(resp.rows))
\* The data rows the code looks at: the first five
FirstFive(resp) ==
    SubSeq(resp.rows, 2, IF Len(resp.rows) < 6 THEN Len(resp.rows) ELSE 6)

\* A row with too few cells for the fixed column positions 1..10
TooFewCells(row) == Len(row) < 11

InsiderFetched == insider_response # None

\* C3 as stated: a network error, a non-success status, a page without the
\* table or a table containing a row with too few cells gives the empty
\* sequence, and composition is reached.
C3_AnyFailureGivesEmpty ==
    InsiderFetched =>
        LET resp == insider_response[1]
        IN  /\ pc # "get_insider_trades"
            /\ (\/ resp.kind # "table"
                \/ \E i \in 1..Len(DataRows(resp)) : TooFewCells(DataRows(resp)[i]))
               => insider_trades = <<>>

\* C3 amended: get_insider_trades never raises and composition is always
\* reached; a network error, a non-success status or a page without the table
\* gives the empty sequence, and so does a row of 8 to 10 cells among the
\* first five data rows; a row of fewer than 8 cells is skipped, the other
\* rows being returned.
C3_FailurePolicy ==
    InsiderFetched =>
        LET resp == insider_response[1]
            rows == FirstFive(resp)
            raising == {i \in 1..Len(rows) : Len(rows[i]) >= 8 /\ Len(rows[i]) < 11}
            kept == {i \in 1..Len(rows) : Len(rows[i]) >= 11}
        IN  /\ Len(Stages) >= 3 \/ pc = "generate_analysis_prompt"
            /\ IsPrefix(<<"get_stock_data", "get_insider_trades">>, Stages)
            /\ resp.kind # "table" => insider_trades = <<>>
            /\ (resp.kind = "table" /\ raising # {}) => insider_trades = <<>>
            /\ (resp.kind = "table" /\ raising = {})
               => Len(insider_trades) = Cardinality(kept)
            /\ Printed("error_insider")
               <=> (resp.kind \in {"network_error", "http_error"}
                    \/ (resp.kind = "table" /\ raising # {}))

\* A table with a short row that is skipped while another row is returned
C3_Witness ==
    /\ InsiderFetched
    /\ insider_response[1].kind = "table"
    /\ \E i \in 1..Len(FirstFive(insider_response[1])) :
            Len(FirstFive(insider_response[1])[i]) < 8
    /\ Len(insider_trades) = 2
    /\ pc = "ollama_generate"

\* C4: the stages run in the fixed order fetch market data, fetch insider
\* trades, compose, infer, format, print; each at most once, none before the
\* one before it has ended, none after a stage that was not reached.
C4_FixedStageOrder ==
    /\ IsPrefix(Stages, StageOrder)
    /\ pc \in {"start", "main", "get_stock_data"} => Len(Stages) = 0
    /\ pc = "get_insider_trades" => Len(Stages) = 1
    /\ pc = "generate_analysis_prompt" => Len(Stages) = 2
    /\ pc = "ollama_generate" => Len(Stages) = 3
    /\ pc = "format_analysis" => Len(Stages) = 4
    /\ pc = "print_results" => Len(Stages) = 5
    /\ pc = "crashed" => Len(Stages) = 3

C4_Witness == pc = "done" /\ Stages = StageOrder /\ Printed("results")

RenderedFields ==
    {"longName", "industry", "sector", "marketCap", "current_price",
     "fiftyTwoWeekLow", "fiftyTwoWeekHigh", "volume", "averageVolume", "rsi",
     "sma_20", "sma_50", "vwap", "daily_change", "weekly_change",
     "monthly_change", "trailingPE", "trailingEps", "forwardPE", "pegRatio"}

\* C5: with at least 2 daily, weekly and monthly bars the prompt holds no
\* not-a-number value, and the daily change is rendered normally.
C5_NoNaNInPrompt ==
    (/\ prompt # None
     /\ NBars(fetched[1].daily) >= 2
     /\ NBars(fetched[1].weekly) >= 2
     /\ NBars(fetched[1].monthly) >= 2)
    => /\ \A f \in RenderedFields : prompt[1][f].s # "nan"
       /\ prompt[1].daily_change.s \in {"", "-"}

IndicatorColumns == {"RSI", "SMA_20", "SMA_50", "VWAP"}

\* C6 as stated: after the indicators are computed data['daily'] holds
\* exactly the bars and columns that were fetched.
C6_DailyFrameUntouched ==
    data # None => data[1].daily = fetched[1].daily

\* C6 amended: the indicator computation changes no fetched column and no
\* bar of data['daily'], nor the weekly and monthly series; for a non-empty
\* daily series it adds the four columns RSI, SMA_20, SMA_50 and VWAP to
\* data['daily'] itself, one value per bar.
C6_FetchedColumnsKept ==
    data # None =>
        LET got == data[1].daily
            was == fetched[1].daily
        IN  /\ \A c \in DOMAIN was : c \in DOMAIN got /\ got[c] = was[c]
            /\ DOMAIN got = (DOMAIN was) \cup
                                (IF NBars(was) = 0 THEN {} ELSE IndicatorColumns)
            /\ \A c \in DOMAIN got : Len(got[c]) = NBars(was)
            /\ data[1].weekly = fetched[1].weekly
            /\ data[1].monthly = fetched[1].monthly

C6_Witness ==
    /\ data # None
    /\ NBars(fetched[1].daily) >= 14
    /\ "RSI" \in DOMAIN data[1].daily
    /\ ~IsNaN(data[1].daily["RSI"][14])
    /\ pc = "get_insider_trades"

TradeFields == {"date", "insider", "title", "trade_type", "price", "qty",
                "owned", "delta_own", "value"}

\* The 0-based position in the document of the row a record was taken from
RowOf(trade) == CHOOSE r \in 0..(Len(RowNames) - 1) : RowNames[r + 1] = trade.date[1]

StripControl(t) == SelectSeq(t, LAMBDA a : a \notin ControlSequences)

Headers == {"Short-Term Outlook", "Long-Term Outlook", "Key Considerations",
            "Support Levels:", "Resistance Levels:", "Entry Points:",
            "Exit Points:", "Target Price Range:"}
Prefixes == [r \in {"Recommendation: ", "Risk: "} |->
                IF r = "Risk: " THEN {"High", "Medium", "Low"}
                ELSE {"Buy", "Sell", "Hold"}]

\* Whether a recognized phrase starts at position i of t
PhraseAt(t, i) ==
    \/ t[i] \in Headers
    \/ /\ t[i] \in DOMAIN Prefixes
       /\ i < Len(t)
       /\ t[i + 1] \in Prefixes[t[i]]

HasPhrase(t) == \E i \in 1..Len(t) : PhraseAt(t, i)

\* C8 as stated: removing the inserted control sequences from the formatted
\* output gives back the raw response, and a response without a recognized
\* phrase is returned as it is.
C8_OnlyControlSequencesInserted ==
    formatted_analysis # None =>
        /\ StripControl(formatted_analysis[1]) = analysis[1]
        /\ ~HasPhrase(analysis[1]) => formatted_analysis[1] = analysis[1]

\* The raw text with a line break before each "Long-Term Outlook" and "Key
\* Considerations" and a space on both sides of the keyword of each
\* "Recommendation: ..." and "Risk: ..." phrase
RECURSIVE Padded(_)
Padded(t) ==
    IF t = <<>> THEN <<>>
    ELSE IF Head(t) \in {"Long-Term Outlook", "Key Considerations"}
         THEN <<"\n", Head(t)>> \o Padded(Tail(t))
    ELSE IF PhraseAt(t, 1) /\ Head(t) \in DOMAIN Prefixes
         THEN <<t[1], " ", t[2], " ">> \o Padded(SubSeq(t, 3, Len(t)))
    ELSE <<Head(t)>> \o Padded(Tail(t))

\* C8 amended: besides control sequences format_analysis inserts a line break
\* before each "Long-Term Outlook" and "Key Considerations" and a space on
\* both sides of the Buy/Sell/Hold and High/Medium/Low keyword; removing the
\* control sequences gives the raw response with exactly these insertions,
\* and a response without a recognized phrase is returned as it is.
C8_ControlSequencesAndPadding ==
    formatted_analysis # None =>
        /\ StripControl(formatted_analysis[1]) = Padded(analysis[1])
        /\ ~HasPhrase(analysis[1]) => formatted_analysis[1] = analysis[1]
        /\ HasPhrase(analysis[1]) => formatted_analysis[1] # analysis[1]

C8_Witness ==
    /\ formatted_analysis # None
    /\ analysis[1] = <<"Recommendation: ", "Buy", "text">>
    /\ pc = "done"

Missing(key) == key \notin DOMAIN info[1]

RenderedNA == [t |-> "str", s |-> "N/A", v |-> 0]
RendersZero(r) == r.s = "" /\ r.v = 0 /\ r.t \in {".2f", ",.2f", ","}

\* C9 as stated: a missing name, industry, sector, 52-week low, 52-week
\* high, average volume, trailing P/E, forward P/E or PEG ratio renders as
\* "N/A"; only market cap, volume and EPS render as zero when missing.
C9_MissingRendersNA ==
    prompt # None =>
        /\ \A key \in {"longName", "industry", "sector", "fiftyTwoWeekLow",
                       "fiftyTwoWeekHigh", "averageVolume", "trailingPE",
                       "forwardPE", "pegRatio"} :
                Missing(key) => prompt[1][key] = RenderedNA
        /\ \A key \in {"marketCap", "volume", "trailingEps"} :
                Missing(key) => RendersZero(prompt[1][key])

\* C9 amended: a missing name, industry, sector, trailing P/E, forward P/E
\* or PEG ratio renders as "N/A"; a missing market cap, 52-week low, 52-week
\* high, volume, average volume or EPS renders as zero.
C9_MissingRendersDefault ==
    prompt # None =>
        /\ \A key \in {"longName", "industry", "sector", "trailingPE",
                       "forwardPE", "pegRatio"} :
                Missing(key) => prompt[1][key] = RenderedNA
        /\ \A key \in {"marketCap", "fiftyTwoWeekLow", "fiftyTwoWeekHigh",
                       "volume", "averageVolume", "trailingEps"} :
                Missing(key) => RendersZero(prompt[1][key])

C9_Witness ==
    /\ prompt # None
    /\ Missing("pegRatio")
    /\ Missing("fiftyTwoWeekLow")
    /\ prompt[1].pegRatio = RenderedNA
    /\ RendersZero(prompt[1].fiftyTwoWeekLow)

\* C10: without a ticker argument a usage message is printed and nothing is
\* fetched or inferred; with a ticker in any letter case both fetches and
\* the prompt receive it in upper case.
C10_UsageOrUppercase ==
    /\ argv = <<>> =>
        /\ calls = <<>>
        /\ pc \in {"start", "done"}
        /\ pc = "done" => out = <<Msg("usage", <<>>)>>
        /\ data = None /\ insider_response = None /\ prompt = None /\ analysis = None
    /\ argv # <<>> =>
        /\ ~Printed("usage")
        /\ \A i \in 1..Len(calls) :
            calls[i].stage \in {"get_stock_data", "get_insider_trades",
                                "generate_analysis_prompt"}
                => calls[i].arg = <<"A", "B", "C">>
        /\ prompt # None => prompt[1].ticker = <<"A", "B", "C">>

C10_Witness ==
    /\ argv = << <<"a", "b", "c">> >>
    /\ prompt # None
    /\ Len(calls) = 6

====
